---- MODULE Spec2Model ----
(***************************************************************************)
(* A model of src/app.py: the Flask application that serves               *)
(* POST /swap-faces/.  A request is handled by the function swap_faces;   *)
(* the state it shares with other requests is the upload folder           *)
(* (UPLOAD_FOLDER = 'uploads').  The detector (face_app) and the swap     *)
(* model (swapper) are external: their results are choices of the         *)
(* environment.                                                           *)
(*                                                                         *)
(* Exceptions are modelled where the code's own data forces them or where *)
(* the code handles them: saving to a path whose directory does not       *)
(* exist, the HTTP GET, cv2.resize to an empty size, swapper.get, and     *)
(* os.remove of a file that is gone.                                      *)
(***************************************************************************)
EXTENDS Integers, Sequences, FiniteSets, TLC

\* ------------------------------------------------------------------ bounds

\* The detector returns between 0 and MaxFaces faces for an image.
MaxFaces == 1

\* ------------------------------------------------------- program constants

max_width == 640

\* The handler threads.  Spec runs any number of requests, one after the
\* other, on MainThread; SpecConc runs one request on each of the two threads.
MainThread == "A"
Workers == {"A", "B"}

Other(w) == IF w = "A" THEN "B" ELSE "A"

\* ------------------------------------------------------------- file names
\* A file name is the sequence of its characters.

UpperCase == <<"A","B","C","D","E","F","G","H","I","J","K","L","M",
               "N","O","P","Q","R","S","T","U","V","W","X","Y","Z">>
LowerCase == <<"a","b","c","d","e","f","g","h","i","j","k","l","m",
               "n","o","p","q","r","s","t","u","v","w","x","y","z">>

\* str.lower() on one character.
LowerChar(c) ==
    IF \E i \in 1..Len(UpperCase) : UpperCase[i] = c
    THEN LowerCase[CHOOSE i \in 1..Len(UpperCase) : UpperCase[i] = c]
    ELSE c

\* str.lower()
Lower(s) == [i \in 1..Len(s) |-> LowerChar(s[i])]

Contains(s, c) == \E i \in 1..Len(s) : s[i] = c

\* s.rsplit('.', 1)[1], for an s that contains a '.': what follows the last '.'.
RSplitDot1(s) ==
    LET last == CHOOSE i \in 1..Len(s) :
                    /\ s[i] = "."
                    /\ \A j \in (i+1)..Len(s) : s[j] # "."
    IN  SubSeq(s, last + 1, Len(s))

ALLOWED_EXTENSIONS ==
    { <<"p","n","g">>, <<"j","p","g">>, <<"j","p","e","g">> }

\* allowed_file(filename)
allowed_file(filename) ==
    /\ Contains(filename, ".")
    /\ RSplitDot1(Lower(filename)) \in ALLOWED_EXTENSIONS

\* The file names a client uploads with in this model.
FN_a_jpg  == <<"a",".","j","p","g">>
FN_B_PNG  == <<"B",".","P","N","G">>
FN_c_txt  == <<"c",".","t","x","t">>
FN_png    == <<"p","n","g">>
FN_d_e_png == <<"d","/","e",".","p","n","g">>
FN_empty  == <<>>

Filenames == {FN_a_jpg, FN_B_PNG, FN_c_txt, FN_png, FN_d_e_png, FN_empty}

\* The fixed names of the images fetched from a URL.
SOURCE_IMAGE_JPG ==
    <<"s","o","u","r","c","e","_","i","m","a","g","e",".","j","p","g">>
TARGET_IMAGE_JPG ==
    <<"t","a","r","g","e","t","_","i","m","a","g","e",".","j","p","g">>

\* Every path under the upload folder that the model's requests can name.
Paths == Filenames \cup {SOURCE_IMAGE_JPG, TARGET_IMAGE_JPG}

\* ------------------------------------------------------------ the request

\* request.files.get(name): None, or a FileStorage with its filename.
NoUpload == [given |-> FALSE, filename |-> <<>>]
Uploads  == {NoUpload} \cup {[given |-> TRUE, filename |-> f] : f \in Filenames}

\* request.form.get(name): None, or the string sent.
NoUrl == [given |-> FALSE, value |-> ""]
Urls  == {NoUrl} \cup {[given |-> TRUE, value |-> v] : v \in {"", "http://img"}}

\* The requests of Spec: every combination of the four fields.
Requests ==
    [source_file : Uploads, target_file : Uploads,
     source_url : Urls, target_url : Urls]

\* The requests of SpecConc: well-formed ones, each side from a file or from
\* a URL (both files, both URLs, or a source file with a target URL).
ConcUploads == {NoUpload, [given |-> TRUE, filename |-> FN_a_jpg]}
ConcUrls    == {NoUrl, [given |-> TRUE, value |-> "http://img"]}
ConcRequests ==
    { r \in [source_file : ConcUploads, target_file : ConcUploads,
             source_url : ConcUrls, target_url : ConcUrls] :
        /\ r.source_file.given # r.source_url.given
        /\ r.target_file.given # r.target_url.given
        /\ r.source_url.given => r.target_url.given }

NoRequest ==
    [source_file |-> NoUpload, target_file |-> NoUpload,
     source_url |-> NoUrl, target_url |-> NoUrl]

\* bool(FileStorage) is bool(filename); bool(str) is str != "".
FileTruthy(f) == f.given /\ f.filename # <<>>
UrlTruthy(u)  == u.given /\ u.value # ""

Sides == {"source", "target"}

FileOf(r, side) == IF side = "source" THEN r.source_file ELSE r.target_file
UrlOf(r, side)  == IF side = "source" THEN r.source_url ELSE r.target_url

\* ------------------------------------------------------------ the images

\* The bytes of a file are identified by the request and the side that
\* supplied them.
NoFile == [owner |-> "none", side |-> "none"]
Bytes(w, side) == [owner |-> w, side |-> side]

\* numpy shapes (height, width) that cv2.imread returns in this model.
Shapes == { <<1, 1>>, <<400, 800>> }

\* What a read of a missing file "read": who removed the file.
Missing(by) == [owner |-> by, side |-> "missing"]

\* cv2.imread returns None for a file that is missing or is no image.
NoneImage(b) == [decoded |-> FALSE, shape |-> <<0, 0>>, bytes |-> b]
Image(b, shape) == [decoded |-> TRUE, shape |-> shape, bytes |-> b]
NotRead == [decoded |-> FALSE, shape |-> <<0, 0>>,
            bytes |-> [owner |-> "unread", side |-> "none"]]

\* ---------------------------------------------------------- the responses

NoResponse == [status |-> 0, error |-> <<>>, mimetype |-> "", body |-> <<>>]

\* jsonify({"error": message}), status
JsonError(words, status) ==
    [status |-> status, error |-> words,
     mimetype |-> "application/json", body |-> <<>>]

\* send_file(result_io, mimetype='image/jpeg'): the JPEG of an image of
\* the given shape.
JpegResponse(shape) ==
    [status |-> 200, error |-> <<>>, mimetype |-> "image/jpeg",
     body |-> <<"JPEG", shape[1], shape[2]>>]

\* The error messages, word by word.
MsgBothRequired ==
    <<"Both", "source", "and", "target", "images", "are", "required",
      "(file", "or", "URL)">>
MsgInvalidType(side) ==
    <<"Invalid", "file", "type", "for", side, "image.", "Only", ".png,",
      ".jpg,", ".jpeg", "are", "allowed">>
MsgDownload(side) ==
    <<"Failed", "to", "download", side, "image:", "<exception>">>
MsgRequired(side) ==
    <<IF side = "source" THEN "Source" ELSE "Target", "image", "is", "required">>
MsgInvalidImage ==
    <<"One", "of", "the", "images", "is", "invalid", "or", "corrupted">>
MsgNoFace(side) ==
    <<"No", "face", "detected", "in", side, "image">>
MsgSwapFailed == <<"Failed", "to", "swap", "faces">>
MsgInternal == <<"Internal", "server", "error">>

\* ---------------------------------------------------------------- state

VARIABLES
    pc,                \* where each thread's handler is
    req,               \* the fields of the request it handles
    source_image,      \* the path of the source file
    target_image,      \* the path of the target file
    source_ins_image,  \* cv2.imread(source_image)
    target_ins_image,  \* cv2.imread(target_image)
    resized,           \* the shape of target_ins_image_resized
    source_faces,      \* len(source_faces), -1 before the detector ran
    target_faces,      \* len(target_faces), -1 before the detector ran
    swap,              \* "none", "ok" or "raised": how swapper.get ended
    get,               \* per side: "none", "ok", "status" or "network"
    listing,           \* clear_uploads_folder: the files still to visit
    resp,              \* the response of the request
    scratch,           \* the upload folder: path -> the bytes of the file
    dirExists,         \* whether the upload folder exists
    lastRemover,       \* path -> the thread whose os.remove deleted it last
    health             \* the last response of GET /health

vars == <<pc, req, source_image, target_image, source_ins_image,
          target_ins_image, resized, source_faces, target_faces, swap, get,
          listing, resp, scratch, dirExists, lastRemover, health>>

locals == <<source_image, target_image, source_ins_image, target_ins_image,
            resized, source_faces, target_faces, swap, get, listing>>

\* The upload folder may or may not exist when the process starts.
Init ==
    /\ pc = [w \in Workers |-> "idle"]
    /\ req = [w \in Workers |-> NoRequest]
    /\ source_image = [w \in Workers |-> <<>>]
    /\ target_image = [w \in Workers |-> <<>>]
    /\ source_ins_image = [w \in Workers |-> NotRead]
    /\ target_ins_image = [w \in Workers |-> NotRead]
    /\ resized = [w \in Workers |-> <<0, 0>>]
    /\ source_faces = [w \in Workers |-> -1]
    /\ target_faces = [w \in Workers |-> -1]
    /\ swap = [w \in Workers |-> "none"]
    /\ get = [w \in Workers |-> [s \in Sides |-> "none"]]
    /\ listing = [w \in Workers |-> {}]
    /\ resp = [w \in Workers |-> NoResponse]
    /\ scratch = [p \in Paths |-> NoFile]
    /\ dirExists \in BOOLEAN
    /\ lastRemover = [p \in Paths |-> "none"]
    /\ health = NoResponse

\* ------------------------------------------------------- the handler steps

\* "return response" from swap_faces.
Return(w, response) ==
    /\ resp' = [resp EXCEPT ![w] = response]
    /\ pc' = [pc EXCEPT ![w] = "done"]

ResetLocals(w) ==
    /\ source_image' = [source_image EXCEPT ![w] = <<>>]
    /\ target_image' = [target_image EXCEPT ![w] = <<>>]
    /\ source_ins_image' = [source_ins_image EXCEPT ![w] = NotRead]
    /\ target_ins_image' = [target_ins_image EXCEPT ![w] = NotRead]
    /\ resized' = [resized EXCEPT ![w] = <<0, 0>>]
    /\ source_faces' = [source_faces EXCEPT ![w] = -1]
    /\ target_faces' = [target_faces EXCEPT ![w] = -1]
    /\ swap' = [swap EXCEPT ![w] = "none"]
    /\ get' = [get EXCEPT ![w] = [s \in Sides |-> "none"]]
    /\ listing' = [listing EXCEPT ![w] = {}]

\* Thread w starts handling request r: the four fields are read.
Accept(w, r) ==
    /\ pc[w] = "idle"
    /\ req' = [req EXCEPT ![w] = r]
    /\ pc' = [pc EXCEPT ![w] = "check_present"]
    /\ UNCHANGED <<locals, resp, scratch, dirExists, lastRemover, health>>

\* The files that the request of a thread left behind are from then on the
\* files of an earlier request.
Forget(w, b) == IF b.owner = w THEN [owner |-> "earlier", side |-> "none"] ELSE b

\* The response is sent and the handler's frame is gone.
Finish(w) ==
    /\ pc[w] = "done"
    /\ pc' = [pc EXCEPT ![w] = "idle"]
    /\ req' = [req EXCEPT ![w] = NoRequest]
    /\ resp' = [resp EXCEPT ![w] = NoResponse]
    /\ scratch' = [p \in Paths |-> Forget(w, scratch[p])]
    /\ lastRemover' =
         [p \in Paths |-> IF lastRemover[p] = w THEN "none" ELSE lastRemover[p]]
    /\ ResetLocals(w)
    /\ UNCHANGED <<dirExists, health>>

\* Spec: the requests come one at a time, on the main thread.
Receive(w) ==
    /\ w = MainThread
    /\ \E r \in Requests : Accept(w, r)

\* SpecConc: each thread handles one request, at any time.
ReceiveConc(w) ==
    /\ \E r \in ConcRequests : Accept(w, r)

\* Variant: "and" between the two sides.
MissingInputs_And(r) ==
    \/ ~(FileTruthy(r.target_file) \/ UrlTruthy(r.target_url))
       /\ ~(FileTruthy(r.source_file) \/ UrlTruthy(r.source_url))

\* not (target_file or target_url) or not (source_file or source_url)
MissingInputs(r) ==
    \/ ~(FileTruthy(r.target_file) \/ UrlTruthy(r.target_url))
    \/ ~(FileTruthy(r.source_file) \/ UrlTruthy(r.source_url))

CheckPresent(w) ==
    /\ pc[w] = "check_present"
    /\ IF MissingInputs(req[w])
       THEN Return(w, JsonError(MsgBothRequired, 400))
       ELSE /\ pc' = [pc EXCEPT ![w] = "ingest_source"]
            /\ UNCHANGED resp
    /\ UNCHANGED <<req, locals, scratch, dirExists, lastRemover, health>>

\* uploaded_file.save(file_path) and open(image_path, 'wb') raise when the
\* directory of the path does not exist.
SaveRaises(filename) == Contains(filename, "/")

\* The file name given to save_image_from_bytes.
FixedName(side) ==
    IF side = "source" THEN SOURCE_IMAGE_JPG ELSE TARGET_IMAGE_JPG

\* Variant: the source's message for both sides.
DownloadError_Source(side) == JsonError(MsgDownload("source"), 400)

\* The except clause around download_image_from_url and save_image_from_bytes.
DownloadError(side) == JsonError(MsgDownload(side), 400)

\* The outcomes of requests.get(url): status 200, another status, or an
\* exception of the network.
GetOutcomes == {"ok", "status", "network"}

SetPath(w, side, path) ==
    IF side = "source"
    THEN /\ source_image' = [source_image EXCEPT ![w] = path]
         /\ UNCHANGED target_image
    ELSE /\ target_image' = [target_image EXCEPT ![w] = path]
         /\ UNCHANGED source_image

Write(w, side, path) ==
    /\ scratch' = [scratch EXCEPT ![path] = Bytes(w, side)]
    /\ lastRemover' = [lastRemover EXCEPT ![path] = "none"]
    /\ SetPath(w, side, path)

\* The ingestion of one side: the file if there is one, else the URL.
Ingest(w, side, next) ==
    LET file == FileOf(req[w], side)
        url  == UrlOf(req[w], side)
    IN
    IF FileTruthy(file)
    THEN IF ~allowed_file(file.filename)
         THEN /\ Return(w, JsonError(MsgInvalidType(side), 400))
              /\ UNCHANGED <<source_image, target_image, scratch, dirExists,
                             lastRemover, get>>
         ELSE \* save_uploaded_file
              /\ dirExists' = TRUE
              /\ UNCHANGED get
              /\ IF SaveRaises(file.filename)
                 THEN /\ Return(w, JsonError(MsgInternal, 500))
                      /\ UNCHANGED <<source_image, target_image, scratch,
                                     lastRemover>>
                 ELSE /\ Write(w, side, file.filename)
                      /\ pc' = [pc EXCEPT ![w] = next]
                      /\ UNCHANGED resp
    ELSE IF UrlTruthy(url)
    THEN \E outcome \in GetOutcomes :
           /\ get' = [get EXCEPT ![w][side] = outcome]
           /\ UNCHANGED dirExists
           /\ IF outcome = "ok" /\ dirExists
              THEN /\ Write(w, side, FixedName(side))
                   /\ pc' = [pc EXCEPT ![w] = next]
                   /\ UNCHANGED resp
              ELSE /\ Return(w, DownloadError(side))
                   /\ UNCHANGED <<source_image, target_image, scratch,
                                  lastRemover>>
    ELSE /\ Return(w, JsonError(MsgRequired(side), 400))
         /\ UNCHANGED <<source_image, target_image, scratch, dirExists,
                        lastRemover, get>>

IngestSource(w) ==
    /\ pc[w] = "ingest_source"
    /\ Ingest(w, "source", "ingest_target")
    /\ UNCHANGED <<req, source_ins_image, target_ins_image, resized,
                   source_faces, target_faces, swap, listing, health>>

IngestTarget(w) ==
    /\ pc[w] = "ingest_target"
    /\ Ingest(w, "target", "read_source")
    /\ UNCHANGED <<req, source_ins_image, target_ins_image, resized,
                   source_faces, target_faces, swap, listing, health>>

\* cv2.imread(path): None when the file is missing; otherwise the bytes
\* decode to an image of some shape, or do not decode.  What the bytes hold
\* is not modelled: each read chooses among the outcomes.
Imread(path) ==
    IF scratch[path] = NoFile
    THEN {NoneImage(Missing(lastRemover[path]))}
    ELSE {NoneImage(scratch[path])}
         \cup {Image(scratch[path], sh) : sh \in Shapes}

\* Variant: the first read takes the target's path.
SourceReadPath_Target(w) == target_image[w]

\* The path given to the first cv2.imread.
SourceReadPath(w) == source_image[w]

ReadSource(w) ==
    /\ pc[w] = "read_source"
    /\ \E img \in Imread(SourceReadPath(w)) :
         source_ins_image' = [source_ins_image EXCEPT ![w] = img]
    /\ pc' = [pc EXCEPT ![w] = "read_target"]
    /\ UNCHANGED <<req, source_image, target_image, target_ins_image, resized,
                   source_faces, target_faces, swap, get, listing, resp,
                   scratch, dirExists, lastRemover, health>>

Min(a, b) == IF a < b THEN a ELSE b

\* Variant: the width is max_width whatever the source.
TargetWidth_Fixed(source_shape) == max_width

\* target_width = min(max_width, source_ins_image.shape[1])
TargetWidth(source_shape) == Min(max_width, source_shape[2])

\* (target_width, int(target_width / aspect_ratio)) with
\* aspect_ratio = shape[1] / shape[0], as a shape (height, width).  The
\* quotient is taken exactly.
ResizedShape(source_shape, target_shape) ==
    LET tw == TargetWidth(source_shape)
    IN  << (tw * target_shape[1]) \div target_shape[2], tw >>

\* Variant: the target is checked first.
NoFaceResponse_TargetFirst(ns, nt) ==
    IF nt = 0 THEN JsonError(MsgNoFace("target"), 400)
    ELSE IF ns = 0 THEN JsonError(MsgNoFace("source"), 400)
    ELSE NoResponse

\* len(source_faces) == 0 and len(target_faces) == 0, in that order;
\* NoResponse when both images have a face.
NoFaceResponse(ns, nt) ==
    IF ns = 0 THEN JsonError(MsgNoFace("source"), 400)
    ELSE IF nt = 0 THEN JsonError(MsgNoFace("target"), 400)
    ELSE NoResponse

\* cv2.imread(target_image), the None check, and cv2.resize, which raises
\* for an empty size.
ReadTarget(w) ==
    /\ pc[w] = "read_target"
    /\ \E img \in Imread(target_image[w]) :
         /\ target_ins_image' = [target_ins_image EXCEPT ![w] = img]
         /\ IF ~source_ins_image[w].decoded \/ ~img.decoded
            THEN /\ Return(w, JsonError(MsgInvalidImage, 400))
                 /\ UNCHANGED resized
            ELSE LET sh == ResizedShape(source_ins_image[w].shape, img.shape)
                 IN  IF sh[1] = 0 \/ sh[2] = 0
                     THEN /\ Return(w, JsonError(MsgInternal, 500))
                          /\ UNCHANGED resized
                     ELSE /\ resized' = [resized EXCEPT ![w] = sh]
                          /\ pc' = [pc EXCEPT ![w] = "detect"]
                          /\ UNCHANGED resp
    /\ UNCHANGED <<req, source_image, target_image, source_ins_image,
                   source_faces, target_faces, swap, get, listing, scratch,
                   dirExists, lastRemover, health>>

\* face_app.get on the source image and on the resized target image, then
\* the two checks for an empty result.
Detect(w) ==
    /\ pc[w] = "detect"
    /\ \E ns \in 0..MaxFaces, nt \in 0..MaxFaces :
         /\ source_faces' = [source_faces EXCEPT ![w] = ns]
         /\ target_faces' = [target_faces EXCEPT ![w] = nt]
         /\ IF NoFaceResponse(ns, nt) # NoResponse
            THEN Return(w, NoFaceResponse(ns, nt))
            ELSE /\ pc' = [pc EXCEPT ![w] = "swap"]
                 /\ UNCHANGED resp
    /\ UNCHANGED <<req, source_image, target_image, source_ins_image,
                   target_ins_image, resized, swap, get, listing, scratch,
                   dirExists, lastRemover, health>>

\* Variant: the failure of the swap answered as a client error.
SwapFailure_AsClientError == JsonError(MsgSwapFailed, 400)

\* The except clause around swapper.get.
SwapFailure == JsonError(MsgSwapFailed, 500)

\* swapper.get(..., paste_back=True) returns an image of the shape of the
\* resized target, or raises; then encode_image.
Swap(w) ==
    /\ pc[w] = "swap"
    /\ \E outcome \in {"ok", "raised"} :
         /\ swap' = [swap EXCEPT ![w] = outcome]
         /\ IF outcome = "raised"
            THEN Return(w, SwapFailure)
            ELSE /\ pc' = [pc EXCEPT ![w] = "clear"]
                 /\ UNCHANGED resp
    /\ UNCHANGED <<req, source_image, target_image, source_ins_image,
                   target_ins_image, resized, source_faces, target_faces, get,
                   listing, scratch, dirExists, lastRemover, health>>

\* clear_uploads_folder: os.path.exists and os.listdir.
ClearList(w) ==
    /\ pc[w] = "clear"
    /\ listing' = [listing EXCEPT ![w] =
                     IF dirExists THEN {p \in Paths : scratch[p] # NoFile}
                     ELSE {}]
    /\ pc' = [pc EXCEPT ![w] = "remove"]
    /\ UNCHANGED <<req, source_image, target_image, source_ins_image,
                   target_ins_image, resized, source_faces, target_faces, swap,
                   get, resp, scratch, dirExists, lastRemover, health>>

\* clear_uploads_folder: one turn of the loop.  os.path.isfile is false, or
\* os.remove raises and is logged, for a file that is already gone.
ClearRemove(w) ==
    /\ pc[w] = "remove"
    /\ \E p \in listing[w] :
         /\ listing' = [listing EXCEPT ![w] = @ \ {p}]
         /\ IF scratch[p] # NoFile
            THEN /\ scratch' = [scratch EXCEPT ![p] = NoFile]
                 /\ lastRemover' = [lastRemover EXCEPT ![p] = w]
            ELSE UNCHANGED <<scratch, lastRemover>>
    /\ UNCHANGED <<pc, req, source_image, target_image, source_ins_image,
                   target_ins_image, resized, source_faces, target_faces, swap,
                   get, resp, dirExists, health>>

\* return send_file(result_io, mimetype='image/jpeg')
Respond(w) ==
    /\ pc[w] = "remove"
    /\ listing[w] = {}
    /\ Return(w, JpegResponse(resized[w]))
    /\ UNCHANGED <<req, locals, scratch, dirExists, lastRemover, health>>

\* GET /health is not a route of app.py; it is modelled from the description
\* of the HTTP surface: {"message": ...}, 200.
HEALTH_MESSAGE == "<fixed message>"

\* Variant: the answer depends on the swap model having failed.
HealthResponse_Not200 ==
    [status |-> IF \E w \in Workers : swap[w] = "raised" THEN 503 ELSE 200,
     error |-> <<>>, mimetype |-> "application/json",
     body |-> <<"message", HEALTH_MESSAGE>>]

\* GET /health
HealthResponse ==
    [status |-> 200, error |-> <<>>, mimetype |-> "application/json",
     body |-> <<"message", HEALTH_MESSAGE>>]

Health ==
    /\ health' = HealthResponse
    /\ UNCHANGED <<pc, req, locals, resp, scratch, dirExists, lastRemover>>

Step(w) ==
    \/ CheckPresent(w)
    \/ IngestSource(w)
    \/ IngestTarget(w)
    \/ ReadSource(w)
    \/ ReadTarget(w)
    \/ Detect(w)
    \/ Swap(w)
    \/ ClearList(w)
    \/ ClearRemove(w)
    \/ Respond(w)

Next ==
    \/ Receive(MainThread)
    \/ Step(MainThread)
    \/ Finish(MainThread)
    \/ Health

Spec == Init /\ [][Next]_vars

NextConc ==
    \/ \E w \in Workers : ReceiveConc(w)
    \/ \E w \in Workers : Step(w)

SpecConc == Init /\ [][NextConc]_vars

\* ------------------------------------------------------------ the claims

Done(w) == pc[w] = "done"

\* The message has the side's name as one of its words.
Mentions(words, side) == \E i \in 1..Len(words) : words[i] = side

\* The side's file field was not sent, or sent without a file name.
NoFileSent(r, side) ==
    ~FileOf(r, side).given \/ Len(FileOf(r, side).filename) = 0

\* The side's URL field was not sent, or sent empty.
NoUrlSent(r, side) ==
    ~UrlOf(r, side).given \/ UrlOf(r, side).value = ""

\* C1 (as stated): once a request has returned its response, with no other
\* request running, no file that this request created is left in the upload
\* folder.
C1_ScratchCleanAfterRequest ==
    \A w \in Workers :
        Done(w) => \A p \in Paths : scratch[p].owner # w

\* C2: a request in which the source side, or the target side, has neither
\* an uploaded file nor a URL is answered with status 400.
C2_MissingSideIs400 ==
    \A w \in Workers :
        (Done(w) /\ \E side \in Sides :
                       NoFileSent(req[w], side) /\ NoUrlSent(req[w], side))
        => resp[w].status = 400

C2_Witness ==
    /\ Done(MainThread)
    /\ NoFileSent(req[MainThread], "source")
    /\ NoUrlSent(req[MainThread], "source")
    /\ FileTruthy(req[MainThread].target_file)
    /\ allowed_file(req[MainThread].target_file.filename)
    /\ resp[MainThread].status = 400

\* C3 (as stated): a request that carries an uploaded file whose extension
\* is not png, jpg or jpeg (case-insensitively) is answered with status 400,
\* whatever its other fields.
C3_BadExtensionIs400 ==
    \A w \in Workers :
        (Done(w) /\ \E side \in Sides :
                       /\ FileTruthy(FileOf(req[w], side))
                       /\ ~allowed_file(FileOf(req[w], side).filename))
        => resp[w].status = 400

Faces(w, side) == IF side = "source" THEN source_faces[w] ELSE target_faces[w]

\* C4 (as stated): for each side S, a request that reaches face detection
\* and for whose S image the detector returns zero faces is answered with
\* status 400 and an error that mentions S, also when both images have zero
\* faces.
C4_NoFaceMentionsSide ==
    \A w \in Workers : \A side \in Sides :
        (Done(w) /\ Faces(w, side) = 0)
        => (resp[w].status = 400 /\ Mentions(resp[w].error, side))

\* C4 (amended): when both detector calls have returned, zero faces in the
\* source image give status 400 with an error that mentions the source and
\* not the target, whatever the target has; at least one face in the source
\* and zero in the target give status 400 with an error that mentions the
\* target.
C4_NoFaceMentionsFirstEmptySide ==
    \A w \in Workers :
        /\ (Done(w) /\ source_faces[w] = 0)
           => /\ resp[w].status = 400
              /\ Mentions(resp[w].error, "source")
              /\ ~Mentions(resp[w].error, "target")
        /\ (Done(w) /\ source_faces[w] > 0 /\ target_faces[w] = 0)
           => /\ resp[w].status = 400
              /\ Mentions(resp[w].error, "target")

C4_Witness ==
    /\ Done(MainThread)
    /\ source_faces[MainThread] = 0
    /\ target_faces[MainThread] = 0
    /\ resp[MainThread].error = MsgNoFace("source")

\* C5: when the swap model raises, the response has status 500, never 400
\* and never 200.
C5_SwapFailureIs500 ==
    \A w \in Workers :
        swap[w] = "raised"
        => /\ Done(w)
           /\ resp[w].status = 500
           /\ resp[w].status \notin {200, 400}

C5_Witness ==
    /\ Done(MainThread)
    /\ swap[MainThread] = "raised"
    /\ source_faces[MainThread] > 0
    /\ target_faces[MainThread] > 0

\* C6: when both images were decoded, the detector found a face in each and
\* the swap succeeded, the response is 200, image/jpeg, with a non-empty
\* body that encodes an image of the shape of the resized target, whose
\* width is min(640, source width).
C6_SuccessIsJpegOfResizedShape ==
    \A w \in Workers :
        (/\ Done(w)
         /\ source_ins_image[w].decoded
         /\ target_ins_image[w].decoded
         /\ source_faces[w] >= 1
         /\ target_faces[w] >= 1
         /\ swap[w] = "ok")
        => /\ resp[w].status = 200
           /\ resp[w].mimetype = "image/jpeg"
           /\ Len(resp[w].body) > 0
           /\ resp[w].body = <<"JPEG", resized[w][1], resized[w][2]>>
           /\ resized[w][2] = IF source_ins_image[w].shape[2] < 640
                              THEN source_ins_image[w].shape[2]
                              ELSE 640

C6_Witness ==
    /\ Done(MainThread)
    /\ swap[MainThread] = "ok"
    /\ source_ins_image[MainThread].shape = <<400, 800>>
    /\ target_ins_image[MainThread].shape = <<400, 800>>
    /\ resp[MainThread].body = <<"JPEG", 320, 640>>

\* C7: for each side S, when S's image is taken from its URL and the GET
\* returns another status than 200 or fails in the network, the request is
\* answered with status 400 and an error that names S, and neither the
\* detector nor the swap model is called.
C7_DownloadFailureIs400 ==
    \A w \in Workers : \A side \in Sides :
        get[w][side] \in {"status", "network"}
        => /\ Done(w)
           /\ resp[w].status = 400
           /\ Mentions(resp[w].error, side)
           /\ source_faces[w] = -1
           /\ target_faces[w] = -1
           /\ swap[w] = "none"

C7_Witness ==
    /\ Done(MainThread)
    /\ get[MainThread]["source"] = "ok"
    /\ get[MainThread]["target"] = "network"
    /\ resp[MainThread].status = 400

\* C8: GET /health is always answered with status 200 and the fixed JSON
\* message, whatever the state of the process and of the models.
C8_HealthIs200 ==
    health # NoResponse
    => /\ health.status = 200
       /\ health.body = <<"message", HEALTH_MESSAGE>>

C8_Witness ==
    /\ health.status = 200
    /\ swap[MainThread] = "raised"

ReadImage(w, side) ==
    IF side = "source" THEN source_ins_image[w] ELSE target_ins_image[w]

\* C9: with two requests running at once on the shared folder, a request can
\* read a scratch file that the other request has overwritten or deleted.
\* The formula says where such a read comes from: a request that read, for
\* one of its sides, something else than the bytes it had saved for that
\* side read the bytes the other request saved, or found the file deleted by
\* the other request's cleanup (or, when its two sides were saved to one
\* path, read its own target).
C9_ForeignReadComesFromOtherRequest ==
    \A w \in Workers : \A side \in Sides :
        LET b == ReadImage(w, side).bytes
        IN  (ReadImage(w, side) # NotRead /\ b # Bytes(w, side))
            => \/ b.owner = Other(w) /\ b.side \in Sides
               \/ b = Missing(Other(w))
               \/ source_image[w] = target_image[w] /\ b = Bytes(w, "target")

\* Request A decoded the bytes that request B had saved as source_image.jpg,
\* and A's cleanup then deleted B's file before B read it, so that B failed
\* although its downloads had succeeded.
C9_Witness ==
    /\ UrlTruthy(req["A"].source_url)
    /\ ~FileTruthy(req["A"].source_file)
    /\ source_image["A"] = SOURCE_IMAGE_JPG
    /\ source_ins_image["A"].bytes = Bytes("B", "source")
    /\ get["B"]["source"] = "ok"
    /\ get["B"]["target"] = "ok"
    /\ source_ins_image["B"].bytes = Missing("A")
    /\ Done("B")
    /\ resp["B"].status = 400

\* C10 (as stated): the source image that a request decodes is the content
\* the request supplied for its source side.
C10_SourceReadIsOwnSource ==
    \A w \in Workers :
        source_ins_image[w] # NotRead
        => source_ins_image[w].bytes = Bytes(w, "source")

====
